---- MODULE Spec2Model ----
(***************************************************************************)
(* PVDevSim (app.py): one Streamlit script run after another.  A run loads *)
(* the three reference CSVs, fetches (or takes from st.cache_data) the     *)
(* weather of the selected city, renders the sidebar and, when the         *)
(* Simulate button was pressed, computes the Weibull series of both BOMs,  *)
(* the degradation summaries, the merged table and the failure-risk        *)
(* section.                                                                *)
(*                                                                         *)
(* Text that the code inspects character by character (material names,     *)
(* stress identifiers) is a sequence of one-character strings; text that   *)
(* is only a key or a label is a TLA+ string.                              *)
(*                                                                         *)
(* Reals are fixed point: a value v is held as the integer v * Scale,      *)
(* every division rounding down.  The three multipliers rh_factor,         *)
(* uv_factor and stress_factor are exact fractions over RhDen, UvDen and   *)
(* StressDen.                                                              *)
(***************************************************************************)
EXTENDS Integers, Sequences, FiniteSets, TLC

\* ------------------------------------------------------------------ text

UpperChars == <<"A","B","C","D","E","F","G","H","I","J","K","L","M",
                "N","O","P","Q","R","S","T","U","V","W","X","Y","Z">>
LowerChars == <<"a","b","c","d","e","f","g","h","i","j","k","l","m",
                "n","o","p","q","r","s","t","u","v","w","x","y","z">>

\* str.lower() on one character
LowerChar(c) ==
    IF \E i \in 1..Len(UpperChars) : UpperChars[i] = c
    THEN LowerChars[CHOOSE i \in 1..Len(UpperChars) : UpperChars[i] = c]
    ELSE c

\* str.lower()
Lower(s) == [i \in 1..Len(s) |-> LowerChar(s[i])]

\* One pattern character against one subject character under re.IGNORECASE:
\* pandas' str.contains takes its pattern as a regular expression
\* (regex=True is the default), so "." stands for any character.  The
\* other metacharacters do not occur in the modelled names.
RegexCharMatch(p, c) == p = "." \/ LowerChar(p) = LowerChar(c)

\* Series.str.contains(pat, case=False) on one cell: re.search(pat, s, re.I)
StrContains(s, pat) ==
    \E i \in 1..(Len(s) + 1) :
        /\ i + Len(pat) - 1 <= Len(s)
        /\ \A j \in 1..Len(pat) : RegexCharMatch(pat[j], s[i + j - 1])

\* str.split()[0]: the first whitespace-delimited token
RECURSIVE SkipSpaces(_)
SkipSpaces(s) ==
    IF s # <<>> /\ Head(s) = " " THEN SkipSpaces(Tail(s)) ELSE s

RECURSIVE TakeToken(_)
TakeToken(s) ==
    IF s = <<>> \/ Head(s) = " " THEN <<>> ELSE <<Head(s)>> \o TakeToken(Tail(s))

FirstToken(t) == TakeToken(SkipSpaces(t))

\* ------------------------------------------------------- reference data

\* Rows of enhanced_failure_risk_matrix.csv that the session reads: the
\* first MaxRiskRows rows of RiskRowPool.
MaxRiskRows == 5

RiskRowPool == <<
    [Material |-> <<"E","V","A"," ","E","n","c","a","p","s","u","l","a","n","t">>,
     Stress   |-> <<"U","V"," ","E","x","p","o","s","u","r","e">>,
     FailureMode |-> "Yellowing", RiskScore |-> 7],
    [Material |-> <<"e","v","a">>,
     Stress   |-> <<"D","H","2","0","0","0"," ","+"," ","P","I","D">>,
     FailureMode |-> "Delamination", RiskScore |-> 8],
    [Material |-> <<"P","E","R","C"," ","c","e","l","l">>,
     Stress   |-> <<"p","i","d">>,
     FailureMode |-> "Shunting", RiskScore |-> 6],
    [Material |-> <<"G","l","a","s","s"," ","3",",","2","m","m">>,
     Stress   |-> <<"H","a","i","l"," ","H","F">>,
     FailureMode |-> "Breakage", RiskScore |-> 5],
    [Material |-> <<"H","J","T">>,
     Stress   |-> <<"d","y","n","a","m","i","c"," ","w","i","n","d">>,
     FailureMode |-> "Microcracks", RiskScore |-> 4],
    [Material |-> <<"P","O","E"," ","f","i","l","m">>,
     Stress   |-> <<"T","C","2","0","0","0">>,
     FailureMode |-> "Browning", RiskScore |-> 3],
    [Material |-> <<"2","m","m"," ","g","l","a","s","s">>,
     Stress   |-> <<"U","V"," ","a","n","d"," ","H","F">>,
     FailureMode |-> "Soiling", RiskScore |-> 2] >>

risk_df == SubSeq(RiskRowPool, 1,
                  IF MaxRiskRows < Len(RiskRowPool) THEN MaxRiskRows
                  ELSE Len(RiskRowPool))

\* full_material_bom_v3.csv: bom_df["Component"].unique(), in file order
Components == <<"Encapsulant - Front", "Cell", "Glass">>

\* bom_df[bom_df["Component"] == comp]["Type"].unique(), in file order
Types(comp) ==
    CASE comp = "Encapsulant - Front" -> << <<"E","V","A">>, <<"P","O","E">> >>
      [] comp = "Cell"                -> << <<"P","E","R","C">>, <<"H","J","T">> >>
      [] comp = "Glass"               -> << <<"3",".","2","m","m">>, <<"2","m","m">> >>

\* weibull_parameters_by_supplier.csv.  Ea in 1/100 eV, Base_Lifetime in
\* years, Beta a whole number so that ** is repeated multiplication.
weibull_df == <<
    [Material |-> <<"e","v","a">>,          Base_Lifetime |-> 30, Ea |-> 70, Beta |-> 2],
    [Material |-> <<"P","E","R","C">>,      Base_Lifetime |-> 35, Ea |-> 90, Beta |-> 1],
    [Material |-> <<"T","P","T">>,          Base_Lifetime |-> 25, Ea |-> 60, Beta |-> 2] >>

\* city_coords, and for each modelled city the yearly means of the TMY
\* columns T2m (deg C), RH (%) and G(h) (W/m2) that a successful fetch
\* yields.  A TMY data set is fixed per location.
Cities == {"Phoenix, USA", "Chennai, India"}

TmyMeans(c) ==
    CASE c = "Phoenix, USA"   -> [T2m |-> 24, RH |-> 30, Gh |-> 250]
      [] c = "Chennai, India" -> [T2m |-> 28, RH |-> 70, Gh |-> 250]

\* test_profiles: each profile a list of <<identifier, weight * 10>> in the
\* dict's insertion order
ProfileNames == <<"None", "IEC Basic", "PVEL Scorecard", "RETC MQI">>

test_profiles(name) ==
    CASE name = "None"           -> << >>
      [] name = "IEC Basic"      -> << [key |-> <<"U","V">>, w10 |-> 3],
                                       [key |-> <<"D","H","2","0","0","0">>, w10 |-> 10],
                                       [key |-> <<"T","C","2","0","0">>, w10 |-> 5] >>
      [] name = "PVEL Scorecard" -> << [key |-> <<"U","V">>, w10 |-> 5],
                                       [key |-> <<"D","H","2","0","0","0">>, w10 |-> 14],
                                       [key |-> <<"P","I","D">>, w10 |-> 10],
                                       [key |-> <<"H","F">>, w10 |-> 6] >>
      [] name = "RETC MQI"       -> << [key |-> <<"U","V">>, w10 |-> 4],
                                       [key |-> <<"H","F">>, w10 |-> 8],
                                       [key |-> <<"D","y","n","a","m","i","c"," ","L","o","a","d">>, w10 |-> 6],
                                       [key |-> <<"P","I","D">>, w10 |-> 8] >>

\* selected_tests.keys()
Keys(tests) == [i \in 1..Len(tests) |-> tests[i].key]

\* sum(selected_tests.values()), times 10
RECURSIVE SumW10(_)
SumW10(tests) == IF tests = <<>> THEN 0 ELSE Head(tests).w10 + SumW10(Tail(tests))

\* ------------------------------------------------------------ arithmetic

Scale == 1000
initial_power == 400
NumYears == 25

\* exp(-n) * Scale for n = 0, 1, 2, ...
ExpNegInt == <<1000, 368, 135, 50, 18, 7, 2, 1>>

\* Sum of the series (-y)^n / n! from term n on, y in [0, Scale)
RECURSIVE ExpSeries(_, _, _)
ExpSeries(y, term, n) ==
    IF term = 0 \/ n > 12 THEN 0
    ELSE LET next == (term * y) \div (n * Scale)
         IN term - next + ExpSeries(y, (next * y) \div ((n + 1) * Scale), n + 2)

\* np.exp(-x) for x >= 0
ExpNeg(x) ==
    LET n == x \div Scale
        y == x % Scale
    IN IF n >= Len(ExpNegInt) THEN 0
       ELSE (ExpNegInt[n + 1] * ExpSeries(y, Scale, 1)) \div Scale

\* np.exp(x)
Exp(x) == IF x <= 0 THEN ExpNeg(-x) ELSE (Scale * Scale) \div ExpNeg(x)

\* arrhenius(temp, Ea): k = 8.617e-5, T = temp + 273.15,
\* exp((Ea / k) * (1/298 - 1/T)), with 1/298 - 1/T = (T - 298) / (298 T)
arrhenius(temp, Ea) ==
    LET EaOverK == (Ea * 1000000) \div 8617
        T100    == temp * 100 + 27315
    IN Exp((EaOverK * (T100 - 29800)) \div ((298 * T100) \div Scale))

\* (years / eta) ** beta
RECURSIVE Pow(_, _)
Pow(r, beta) == IF beta = 0 THEN Scale ELSE (r * Pow(r, beta - 1)) \div Scale

\* weibull_survival(years, eta, beta) for one year; eta in 1/100 year
weibull_survival(year, eta100, beta) ==
    ExpNeg(Pow((year * 100 * Scale) \div eta100, beta))

\* rh_factor = 1 + 0.01 * (avg_rh - 50), as a fraction over RhDen (exact
\* for the modelled means, whole tens of percent)
RhDen == 10
rh_factor(avg_rh) == RhDen + (avg_rh - 50) \div 10

\* uv_index = avg_irr / 50 (exact for the modelled means, multiples of 50)
uv_index(avg_irr) == avg_irr \div 50

\* uv_factor = 1 + 0.02 * (uv_index - 5), as a fraction over UvDen
UvDen == 50
uv_factor(uv) == UvDen + (uv - 5)

\* stress_factor = 1 + 0.05 * sum(selected_tests.values()), over StressDen
StressDen == 200
stress_factor(tests) == StressDen + SumW10(tests)

\* ------------------------------------------------------------ data frames

\* A DataFrame is a sequence of rows, each row a function from column name
\* to value; NaN is the string "NaN".
NaN == "NaN"

\* bom[comp]["Type"] on the dict select_bom returns: a sequence of
\* [Component, Type] items in insertion order
BomType(bom, comp) ==
    bom[CHOOSE i \in 1..Len(bom) : bom[i].Component = comp].Type

\* weibull_df[weibull_df["Material"].str.lower() == name.lower()]
WeibullRows(name) ==
    SelectSeq(weibull_df, LAMBDA r : Lower(r.Material) = Lower(name))

\* A slip in the range: np.arange(0, 25)
years_from_zero == [i \in 1..NumYears |-> i - 1]

\* years = np.arange(1, 26)
years == [i \in 1..NumYears |-> i]

\* [np.nan] * 25
NanList == [i \in 1..25 |-> NaN]

\* pd.merge(df1, df2, on="Year"): the inner join, left order kept
RECURSIVE Merge(_, _)
Merge(left, right) ==
    IF left = <<>> THEN <<>>
    ELSE LET a == Head(left)
             hits == SelectSeq(right, LAMBDA b : b["Year"] = a["Year"])
         IN [i \in 1..Len(hits) |-> a @@ hits[i]] \o Merge(Tail(left), right)

\* pd.concat(frames)
RECURSIVE Concat(_)
Concat(frames) ==
    IF frames = <<>> THEN <<>> ELSE Head(frames) \o Concat(Tail(frames))

\* ------------------------------------------------------------ simulate_bom

\* surv_m + surv_c for one year: eta = Base_Lifetime / arrhenius(avg_temp, Ea)
\* (in 1/100 year) and weibull_survival of both materials
SurvivalSum(mat, cell, avg_temp, year) ==
    LET eta_m == (mat.Base_Lifetime * 100 * Scale) \div arrhenius(avg_temp, mat.Ea)
        eta_c == (cell.Base_Lifetime * 100 * Scale) \div arrhenius(avg_temp, cell.Ea)
    IN weibull_survival(year, eta_m, mat.Beta) + weibull_survival(year, eta_c, cell.Beta)

\* simulate_bom(bom, label) with the globals avg_temp, avg_rh, uv_index (site)
\* and selected_tests (tests): whether it emits its st.warning, and the
\* DataFrame it returns.  Reliability and Loss are percentages times Scale,
\* Power is watts times Scale.
simulate_bom(bom, label, site, tests) ==
    LET front_encap == BomType(bom, "Encapsulant - Front")
        cell_type   == BomType(bom, "Cell")
        mat_row     == WeibullRows(front_encap)
        cell_row    == WeibullRows(cell_type)
    IN IF mat_row = <<>> \/ cell_row = <<>>
       THEN [warning |-> TRUE,
             df |-> [i \in 1..Len(years) |->
                        ("Year" :> years[i]) @@
                        ((label \o " Reliability") :> NanList[i])]]
       ELSE LET mat   == mat_row[1]
                cell  == cell_row[1]
                den   == rh_factor(site.avg_rh) * uv_factor(site.uv_index)
                             * stress_factor(tests)
                \* (surv_m + surv_c) / 2 / (rh_factor * uv_factor * stress_factor)
                combined(y) == (SurvivalSum(mat, cell, site.avg_temp, y)
                                    * (RhDen * UvDen * StressDen)) \div (2 * den)
                power(y) == initial_power * combined(y)
                percent_loss(y) == 100 * Scale - (power(y) * 100) \div initial_power
            IN [warning |-> FALSE,
                df |-> [i \in 1..Len(years) |->
                          ("Year" :> years[i]) @@
                          ((label \o " Reliability") :> combined(years[i]) * 100) @@
                          ((label \o " Power (W)") :> power(years[i])) @@
                          ((label \o " Loss (%)") :> percent_loss(years[i]))]]

\* ------------------------------------------------ show_degradation_summary

\* base_deg = 0.5, as the fraction 1 / BaseDegDen
BaseDegDen == 2

\* Denominator of deg_rate's exact value
Year1Den == BaseDegDen * Scale * RhDen * UvDen * StressDen

\* An additive reading: base_deg * accel + 0.05 * sum(selected_tests.values()),
\* the humidity and UV factors left out
deg_rate_additive(accel, rh, uv, stress) ==
    accel * RhDen * UvDen * StressDen + (stress - StressDen) * (Year1Den \div StressDen)

\* deg_rate = base_deg * accel * rh_factor * uv_factor * stress_factor, as
\* the numerator of an exact fraction over Year1Den
deg_rate(accel, rh, uv, stress) == accel * rh * uv * stress

\* The panel of show_degradation_summary for the activation energy mat_ea:
\* the Arrhenius factor (times Scale), year-1 loss (exactly year1_num over
\* Year1Den; year1 is the percentage times Scale), 25-year loss, the
\* reliability it computes, and the power at 25 years (watts times Scale)
SummaryPanel(mat_ea, site, tests) ==
    LET accel  == arrhenius(site.avg_temp, mat_ea)
        num    == deg_rate(accel, rh_factor(site.avg_rh),
                           uv_factor(site.uv_index), stress_factor(tests))
        year1  == num \div (Year1Den \div Scale)
        year25 == (year1 * 25 * 95) \div 100
    IN [warning     |-> FALSE,
        accel       |-> accel,
        year1_num   |-> num,
        year1       |-> year1,
        year25      |-> year25,
        reliability |-> IF 100 * Scale - year25 > 0 THEN 100 * Scale - year25 ELSE 0,
        power_25    |-> initial_power * Scale - (initial_power * year25) \div 100]

\* show_degradation_summary(bom, label): the st.warning it emits instead of
\* the panel, or the panel
show_degradation_summary(bom, label, site, tests) ==
    LET encap    == BomType(bom, "Encapsulant - Front")
        cell     == BomType(bom, "Cell")
        mat_row  == WeibullRows(encap)
        cell_row == WeibullRows(cell)
    IN IF mat_row = <<>> \/ cell_row = <<>>
       THEN [warning |-> TRUE]
       ELSE SummaryPanel(mat_row[1].Ea, site, tests)

\* ------------------------------------------------------------ failure risk

\* risk_df with its index, as the rows a boolean mask selects
RiskRow(i) == ("Index" :> i) @@ risk_df[i]

\* get_failures(material, test_keys): for each identifier in turn the rows
\* the mask selects, Component set to "", all concatenated
RECURSIVE get_failures(_, _)
get_failures(material, test_keys) ==
    IF test_keys = <<>> THEN <<>>
    ELSE LET t == Head(test_keys)
             hit == SelectSeq([i \in 1..Len(risk_df) |-> i],
                        LAMBDA i : /\ StrContains(risk_df[i].Material, material)
                                   /\ StrContains(risk_df[i].Stress, FirstToken(t)))
             match == [k \in 1..Len(hit) |-> ("Component" :> "") @@ RiskRow(hit[k])]
         IN match \o get_failures(material, Tail(test_keys))

\* The assignment forgotten: get_failures' placeholder "" stays
SetComponent_forgotten(fails, comp) == fails

\* fails["Component"] = comp
SetComponent(fails, comp) ==
    [k \in 1..Len(fails) |-> [fails[k] EXCEPT !["Component"] = comp]]

\* for comp, row in bom1.items(): the get_failures calls made, in order, and
\* the frames appended to risks
RECURSIVE RiskLoop(_, _)
RiskLoop(items, test_keys) ==
    IF items = <<>> THEN [calls |-> <<>>, risks |-> <<>>]
    ELSE LET comp  == Head(items).Component
             fails == get_failures(Head(items).Type, test_keys)
             rest  == RiskLoop(Tail(items), test_keys)
         IN [calls |-> <<Head(items).Type>> \o rest.calls,
             risks |-> (IF fails # <<>> THEN <<SetComponent(fails, comp)>> ELSE <<>>)
                           \o rest.risks]

\* The section without its "if selected_tests:" test
RiskSection_unguarded(b1, b2, tests) ==
    LET loop == RiskLoop(b1, Keys(tests))
    IN IF loop.risks # <<>>
       THEN [shown |-> "dataframe", df |-> Concat(loop.risks), calls |-> loop.calls]
       ELSE [shown |-> "success", df |-> <<>>, calls |-> loop.calls]

\* The section looping over bom2.items()
RiskSection_bom2(b1, b2, tests) ==
    IF tests # <<>>
    THEN LET loop == RiskLoop(b2, Keys(tests))
         IN IF loop.risks # <<>>
            THEN [shown |-> "dataframe", df |-> Concat(loop.risks), calls |-> loop.calls]
            ELSE [shown |-> "success", df |-> <<>>, calls |-> loop.calls]
    ELSE [shown |-> "info", df |-> <<>>, calls |-> <<>>]

\* The failure-risk section of the Simulate handler, which has bom1, bom2
\* and selected_tests in scope: what it shows ("info", "success" or
\* "dataframe"), the rows of the table and the get_failures calls made.
RiskSection(b1, b2, tests) ==
    IF tests # <<>>
    THEN LET loop == RiskLoop(b1, Keys(tests))
         IN IF loop.risks # <<>>
            THEN [shown |-> "dataframe", df |-> Concat(loop.risks), calls |-> loop.calls]
            ELSE [shown |-> "success", df |-> <<>>, calls |-> loop.calls]
    ELSE [shown |-> "info", df |-> <<>>, calls |-> <<>>]

\* ------------------------------------------------------------------ state

VARIABLES
    pc,          \* where the script run stands; "done", "stopped_csv",
                 \* "stopped_weather" and "crashed" are ended runs
    city,        \* the Location selectbox
    profile,     \* the Stress Profile selectbox
    bom1, bom2,  \* what select_bom returns from the BOM selectboxes
    clicked,     \* st.sidebar.button("Simulate") is True in this run
    cache,       \* st.cache_data's entries for get_weather, by city
    failed,      \* cities whose latest get_weather ended without data
    loadError,   \* the file this run could not read, or "none"
    requests,    \* requests.get calls made by this run
    weather_df,  \* "unset", "None" or "df"
    site,        \* avg_temp, avg_rh, avg_irr, uv_index, or Unset
    messages,    \* st.error / st.warning / st.info / st.success, in order
    df1, df2,    \* simulate_bom's frames, or NoFrame
    summary1, summary2,  \* what show_degradation_summary did, or Unset
    merged,      \* the merged table shown, or NoFrame
    risk         \* the failure-risk section, or Unset

vars == <<pc, city, profile, bom1, bom2, clicked, cache, failed, loadError,
          requests, weather_df, site, messages, df1, df2, summary1, summary2,
          merged, risk>>

widgets == <<city, profile, bom1, bom2>>
results == <<df1, df2, summary1, summary2, merged, risk>>

\* A name the run has not bound yet: a record for the record-valued names,
\* no rows for the frames (a frame the code builds has 25 rows)
Unset == [unset |-> TRUE]
NoFrame == <<>>

Ended == {"done", "stopped_csv", "stopped_weather", "crashed"}

CsvFiles == {"full_material_bom_v3.csv", "enhanced_failure_risk_matrix.csv",
             "weibull_parameters_by_supplier.csv"}

\* select_bom(label) with every selectbox at its i-th option
select_bom(choice) ==
    [i \in 1..Len(Components) |->
        [Component |-> Components[i], Type |-> Types(Components[i])[choice[i]]]]

Init ==
    /\ pc = "load"
    /\ city = "Phoenix, USA"
    /\ profile = "None"
    /\ bom1 = select_bom([i \in 1..Len(Components) |-> 1])
    /\ bom2 = select_bom([i \in 1..Len(Components) |-> 1])
    /\ clicked = FALSE
    /\ cache = [c \in Cities |-> "miss"]
    /\ failed = {}
    /\ loadError = "none"
    /\ requests = 0
    /\ weather_df = "unset"
    /\ site = Unset
    /\ messages = <<>>
    /\ df1 = NoFrame /\ df2 = NoFrame
    /\ summary1 = Unset /\ summary2 = Unset
    /\ merged = NoFrame
    /\ risk = Unset

\* ------------------------------------------------------------ script runs

\* Streamlit reruns the script from its first line; nothing a run computed
\* survives but the widget values and the cache.
StartRun(button) ==
    /\ pc \in Ended
    /\ pc' = "load"
    /\ clicked' = button
    /\ loadError' = "none"
    /\ requests' = 0
    /\ weather_df' = "unset"
    /\ site' = Unset
    /\ messages' = <<>>
    /\ df1' = NoFrame /\ df2' = NoFrame
    /\ summary1' = Unset /\ summary2' = Unset
    /\ merged' = NoFrame
    /\ risk' = Unset
    /\ UNCHANGED <<cache, failed>>

\* The user asks for a rerun (the menu's Rerun, or a reload of the page)
Rerun ==
    /\ StartRun(FALSE)
    /\ UNCHANGED widgets

\* The Location selectbox, rendered by every run that got past the CSVs
ChangeCity ==
    /\ pc \in {"done", "stopped_weather", "crashed"}
    /\ \E c \in Cities \ {city} : city' = c
    /\ StartRun(FALSE)
    /\ UNCHANGED <<profile, bom1, bom2>>

\* The Stress Profile selectbox, rendered by a run that got the weather
ChangeProfile ==
    /\ pc = "done"
    /\ \E i \in 1..Len(ProfileNames) :
          /\ ProfileNames[i] # profile
          /\ profile' = ProfileNames[i]
    /\ StartRun(FALSE)
    /\ UNCHANGED <<city, bom1, bom2>>

\* One selectbox of select_bom("BOM 1")
ChangeBom1 ==
    /\ pc = "done"
    /\ \E i \in 1..Len(Components) : \E k \in 1..Len(Types(Components[i])) :
          /\ Types(Components[i])[k] # bom1[i].Type
          /\ bom1' = [bom1 EXCEPT ![i].Type = Types(Components[i])[k]]
    /\ StartRun(FALSE)
    /\ UNCHANGED <<city, profile, bom2>>

\* One selectbox of select_bom("BOM 2")
ChangeBom2 ==
    /\ pc = "done"
    /\ \E i \in 1..Len(Components) : \E k \in 1..Len(Types(Components[i])) :
          /\ Types(Components[i])[k] # bom2[i].Type
          /\ bom2' = [bom2 EXCEPT ![i].Type = Types(Components[i])[k]]
    /\ StartRun(FALSE)
    /\ UNCHANGED <<city, profile, bom1>>

\* The Simulate button
ClickSimulate ==
    /\ pc = "done"
    /\ StartRun(TRUE)
    /\ UNCHANGED widgets

\* st.stop() left out of the except branch
AfterLoad_no_stop(err) == "weather"

\* After a failed read: st.error, st.stop
AfterLoad(err) == IF err = "none" THEN "weather" ELSE "stopped_csv"

\* try: the three pd.read_csv calls; except: st.error and st.stop
LoadCSVs ==
    /\ pc = "load"
    /\ \E err \in CsvFiles \cup {"none"} :
          /\ loadError' = err
          /\ pc' = AfterLoad(err)
          /\ messages' = IF err = "none" THEN messages
                         ELSE Append(messages, [kind |-> "error", about |-> err])
    /\ UNCHANGED <<widgets, clicked, cache, failed, requests, weather_df, site, results>>

\* What get_weather returns for what requests.get brought
WeatherResult(outcome) == IF outcome = "ok" THEN "df" ELSE "None"

\* get_weather(lat, lon) when st.cache_data holds an entry for the arguments
GetWeatherCached ==
    /\ pc = "weather"
    /\ cache[city] # "miss"
    /\ weather_df' = cache[city]
    /\ pc' = "stats"
    /\ UNCHANGED <<widgets, clicked, cache, failed, loadError, requests, site,
                   messages, results>>

\* get_weather(lat, lon) run for its arguments: status 200 and a parseable
\* body ("ok"), another status ("non200"), a body that does not parse
\* ("unparseable"); st.cache_data stores what it returned
GetWeatherFetch ==
    /\ pc = "weather"
    /\ cache[city] = "miss"
    /\ \E outcome \in {"ok", "non200", "unparseable"} :
          /\ weather_df' = WeatherResult(outcome)
          /\ cache' = [cache EXCEPT ![city] = WeatherResult(outcome)]
          /\ failed' = IF outcome = "ok" THEN failed \ {city} ELSE failed \cup {city}
    /\ requests' = requests + 1
    /\ pc' = "stats"
    /\ UNCHANGED <<widgets, clicked, loadError, site, messages, results>>

\* requests.get raises (the source is unreachable): the exception leaves
\* get_weather, nothing is cached, and Streamlit shows it and ends the run
GetWeatherRaises ==
    /\ pc = "weather"
    /\ cache[city] = "miss"
    /\ requests' = requests + 1
    /\ failed' = failed \cup {city}
    /\ messages' = Append(messages, [kind |-> "exception", about |-> "requests.get"])
    /\ pc' = "crashed"
    /\ UNCHANGED <<widgets, clicked, cache, loadError, weather_df, site, results>>

\* if weather_df is None: st.error, st.stop; else the site statistics and
\* the sidebar
SiteStatistics ==
    /\ pc = "stats"
    /\ IF weather_df = "None"
       THEN /\ messages' = Append(messages, [kind |-> "error", about |-> "Weather fetch failed"])
            /\ pc' = "stopped_weather"
            /\ site' = site
       ELSE /\ site' = [avg_temp  |-> TmyMeans(city).T2m,
                        avg_rh    |-> TmyMeans(city).RH,
                        avg_irr   |-> TmyMeans(city).Gh,
                        uv_index  |-> uv_index(TmyMeans(city).Gh)]
            /\ pc' = "button"
            /\ messages' = messages
    /\ UNCHANGED <<widgets, clicked, cache, failed, loadError, requests, weather_df, results>>

\* The warnings of simulate_bom and show_degradation_summary, and the
\* message of the failure-risk section, in the order the handler emits them
HandlerMessages(r1, r2, s1, s2, rk) ==
    (IF r1.warning THEN <<[kind |-> "warning", about |-> "Weibull parameters not found for BOM 1"]>> ELSE <<>>)
    \o (IF r2.warning THEN <<[kind |-> "warning", about |-> "Weibull parameters not found for BOM 2"]>> ELSE <<>>)
    \o (IF s1.warning THEN <<[kind |-> "warning", about |-> "Cannot show degradation summary for BOM 1"]>> ELSE <<>>)
    \o (IF s2.warning THEN <<[kind |-> "warning", about |-> "Cannot show degradation summary for BOM 2"]>> ELSE <<>>)
    \o (IF rk.shown = "info" THEN <<[kind |-> "info", about |-> "Select a test profile"]>> ELSE <<>>)
    \o (IF rk.shown = "success" THEN <<[kind |-> "success", about |-> "No major risks found"]>> ELSE <<>>)

\* if st.sidebar.button("Simulate"): the whole handler
Simulate ==
    /\ pc = "button"
    /\ clicked
    /\ LET tests == test_profiles(profile)
           r1 == simulate_bom(bom1, "BOM 1", site, tests)
           r2 == simulate_bom(bom2, "BOM 2", site, tests)
           s1 == show_degradation_summary(bom1, "BOM 1", site, tests)
           s2 == show_degradation_summary(bom2, "BOM 2", site, tests)
           rk == RiskSection(bom1, bom2, tests)
       IN /\ df1' = r1.df
          /\ df2' = r2.df
          /\ summary1' = s1
          /\ summary2' = s2
          /\ merged' = IF r1.df # <<>> /\ r2.df # <<>> THEN Merge(r1.df, r2.df) ELSE NoFrame
          /\ risk' = rk
          /\ messages' = messages \o HandlerMessages(r1, r2, s1, s2, rk)
    /\ pc' = "done"
    /\ UNCHANGED <<widgets, clicked, cache, failed, loadError, requests, weather_df, site>>

\* The button is False: the script ends after the sidebar
NoSimulate ==
    /\ pc = "button"
    /\ ~clicked
    /\ pc' = "done"
    /\ UNCHANGED <<widgets, clicked, cache, failed, loadError, requests, weather_df,
                   site, messages, results>>

Next ==
    \/ Rerun
    \/ ChangeCity
    \/ ChangeProfile
    \/ ChangeBom1
    \/ ChangeBom2
    \/ ClickSimulate
    \/ LoadCSVs
    \/ GetWeatherCached
    \/ GetWeatherFetch
    \/ GetWeatherRaises
    \/ SiteStatistics
    \/ Simulate
    \/ NoSimulate

Spec == Init /\ [][Next]_vars

\* ------------------------------------------------------------ properties

\* A Simulate handler has run to its end in this script run
Simulated == risk # Unset

selected_tests == test_profiles(profile)

\* No row of the Weibull table equals `name` case-insensitively
NoWeibullRow(name) ==
    \A i \in 1..Len(weibull_df) : Lower(weibull_df[i].Material) # Lower(name)

\* The front encapsulant or the cell of `bom` has no Weibull row
WeibullMissing(bom) ==
    \/ NoWeibullRow(BomType(bom, "Encapsulant - Front"))
    \/ NoWeibullRow(BomType(bom, "Cell"))

\* The panel was shown for the summary s
HasPanel(s) == s # Unset /\ ~s.warning

Shown(kind, about) ==
    \E i \in 1..Len(messages) : messages[i] = [kind |-> kind, about |-> about]

\* The frame simulate_bom returns on the "parameters not found" path: the
\* years 1..25, each with a NaN reliability and no other column
IsNanSeries(df, label) ==
    /\ Len(df) = 25
    /\ \A i \in 1..Len(df) :
          df[i] = ("Year" :> i) @@ ((label \o " Reliability") :> NaN)

\* C1 as stated: for a BOM whose front encapsulant or cell has no Weibull
\* row, a Simulate run does not raise, shows the "parameters not found"
\* warning and still produces the empirical output (year-1 loss, year-25
\* loss, reliability index) for that BOM.
C1_FallbackToEmpirical ==
    Simulated =>
        /\ WeibullMissing(bom1) =>
              /\ Shown("warning", "Weibull parameters not found for BOM 1")
              /\ HasPanel(summary1)
              /\ {"year1", "year25", "reliability"} \subseteq DOMAIN summary1
        /\ WeibullMissing(bom2) =>
              /\ Shown("warning", "Weibull parameters not found for BOM 2")
              /\ HasPanel(summary2)
              /\ {"year1", "year25", "reliability"} \subseteq DOMAIN summary2

\* What the code does for such a BOM: the run ends without raising, shows
\* the "Weibull parameters not found" warning and returns the 25-year
\* series with NaN reliability, and shows the "Cannot show degradation
\* summary" warning in place of the panel.
MissingRowWarnsWithoutSummary ==
    Simulated =>
        /\ pc = "done"
        /\ WeibullMissing(bom1) =>
              /\ Shown("warning", "Weibull parameters not found for BOM 1")
              /\ IsNanSeries(df1, "BOM 1")
              /\ Shown("warning", "Cannot show degradation summary for BOM 1")
              /\ summary1 = [warning |-> TRUE]
        /\ WeibullMissing(bom2) =>
              /\ Shown("warning", "Weibull parameters not found for BOM 2")
              /\ IsNanSeries(df2, "BOM 2")
              /\ Shown("warning", "Cannot show degradation summary for BOM 2")
              /\ summary2 = [warning |-> TRUE]

\* Some component of BOM 1 and some identifier of the profile select a row
\* of the risk table
AnyRiskMatch ==
    \E i \in 1..Len(bom1) : \E k \in 1..Len(selected_tests) :
    \E r \in 1..Len(risk_df) :
        /\ StrContains(risk_df[r].Material, bom1[i].Type)
        /\ StrContains(risk_df[r].Stress, FirstToken(selected_tests[k].key))

\* C2: the failure-risk section shows exactly one of "not applicable" (the
\* st.info), "no risks found" (the st.success) and a risk table; the info
\* if and only if the profile is empty, the success if and only if the
\* profile is non-empty and nothing matches, the table if and only if the
\* profile is non-empty and something matches; an empty profile has total
\* stress score 0.
C2_ThreeRiskStates ==
    Simulated =>
        /\ risk.shown \in {"info", "success", "dataframe"}
        /\ (risk.shown = "info") <=> (selected_tests = <<>>)
        /\ (risk.shown = "success") <=> (selected_tests # <<>> /\ ~AnyRiskMatch)
        /\ (risk.shown = "dataframe") <=> (selected_tests # <<>> /\ AnyRiskMatch)
        /\ (risk.shown = "dataframe") <=> (risk.df # <<>>)
        /\ Shown("info", "Select a test profile") <=> (risk.shown = "info")
        /\ Shown("success", "No major risks found") <=> (risk.shown = "success")
        /\ selected_tests = <<>> =>
              /\ SumW10(selected_tests) = 0
              /\ stress_factor(selected_tests) = StressDen

C2_Witness ==
    /\ Simulated
    /\ selected_tests = <<>>
    /\ risk.shown = "info"

\* `s` contains `sub` as a case-insensitive substring
SubstringCI(s, sub) ==
    \E i \in 1..(Len(s) + 1) :
        /\ i + Len(sub) - 1 <= Len(s)
        /\ \A j \in 1..Len(sub) : LowerChar(sub[j]) = LowerChar(s[i + j - 1])

\* What C3 says get_failures returns: per identifier, in order, the rows
\* whose Material contains the material and whose Stress contains the
\* identifier's first token, as case-insensitive substrings
RECURSIVE SubstringFailures(_, _)
SubstringFailures(material, test_keys) ==
    IF test_keys = <<>> THEN <<>>
    ELSE LET hit == SelectSeq([i \in 1..Len(risk_df) |-> i],
                        LAMBDA i : /\ SubstringCI(risk_df[i].Material, material)
                                   /\ SubstringCI(risk_df[i].Stress,
                                                  FirstToken(Head(test_keys))))
         IN [k \in 1..Len(hit) |-> hit[k]] \o SubstringFailures(material, Tail(test_keys))

\* The risk-table rows (by index) that the report holds for one component
ReportIndexes(comp) ==
    LET rows == SelectSeq(risk.df, LAMBDA r : r.Component = comp)
    IN [k \in 1..Len(rows) |-> rows[k].Index]

\* C3 as stated: what get_failures returned for each material of BOM 1 is
\* the concatenation, over the profile's identifiers in order, of the rows
\* matching by case-insensitive substring, a row once per identifier it
\* matches.
C3_SubstringMatches ==
    (Simulated /\ selected_tests # <<>>) =>
        \A i \in 1..Len(bom1) :
            ReportIndexes(bom1[i].Component)
                = SubstringFailures(bom1[i].Type, Keys(selected_tests))

\* Where no material of BOM 1 holds a regular-expression metacharacter the
\* two readings of "contains" agree and the report is as C3 says.
SubstringMatchesWithoutMetacharacters ==
    (\A i \in 1..Len(bom1) : \A j \in 1..Len(bom1[i].Type) : bom1[i].Type[j] # ".")
        => C3_SubstringMatches

\* The place of a component among the slots of BOM 1
SlotOf(comp) == CHOOSE i \in 1..Len(bom1) : bom1[i].Component = comp

\* C4: with a non-empty profile get_failures is called once per component
\* slot of BOM 1, in the BOM's insertion order; every row of the report
\* carries a slot of BOM 1 (never the placeholder "") whose material and
\* the profile select that row; rows of an earlier slot come before rows
\* of a later slot.
C4_ReportPerSlotInOrder ==
    Simulated =>
        /\ selected_tests # <<>> =>
              risk.calls = [i \in 1..Len(bom1) |-> bom1[i].Type]
        /\ \A k \in 1..Len(risk.df) :
              /\ risk.df[k].Component # ""
              /\ \E i \in 1..Len(bom1) : bom1[i].Component = risk.df[k].Component
              /\ StrContains(risk.df[k].Material, BomType(bom1, risk.df[k].Component))
              /\ \E t \in 1..Len(selected_tests) :
                    StrContains(risk.df[k].Stress, FirstToken(selected_tests[t].key))
              /\ risk_df[risk.df[k].Index].Material = risk.df[k].Material
        /\ \A j, k \in 1..Len(risk.df) :
              j < k => SlotOf(risk.df[j].Component) <= SlotOf(risk.df[k].Component)

C4_Witness ==
    /\ Simulated
    /\ risk.shown = "dataframe"
    /\ \E j, k \in 1..Len(risk.df) :
          SlotOf(risk.df[j].Component) < SlotOf(risk.df[k].Component)

C6_FailedFetchIsRefetched ==
    /\ (weather_df = "None" \/ pc = "crashed") =>
          /\ site = Unset
          /\ df1 = NoFrame /\ df2 = NoFrame
          /\ summary1 = Unset /\ summary2 = Unset
          /\ merged = NoFrame
          /\ risk = Unset
          /\ requests <= 1
    /\ pc = "stopped_weather" => Shown("error", "Weather fetch failed")
    /\ (city \in failed /\ pc \in {"stats", "stopped_weather", "crashed"}) =>
          requests = 1

\* C7: every series simulate_bom returned has 25 entries with Year 1, 2,
\* ..., 25 in this order, on both paths, and the merged table has 25 rows,
\* one per year.
C7_TwentyFiveYears ==
    /\ Simulated =>
          /\ Len(df1) = 25
          /\ \A i \in 1..Len(df1) : df1[i]["Year"] = i
          /\ Len(df2) = 25
          /\ \A i \in 1..Len(df2) : df2[i]["Year"] = i
          /\ Len(merged) = 25
          /\ \A i \in 1..Len(merged) : merged[i]["Year"] = i

C7_Witness ==
    /\ Simulated
    /\ "BOM 1 Power (W)" \notin DOMAIN df1[25]
    /\ "BOM 2 Power (W)" \in DOMAIN df2[25]

MatOf(bom) == WeibullRows(BomType(bom, "Encapsulant - Front"))[1]
CellOf(bom) == WeibullRows(BomType(bom, "Cell"))[1]

\* C9 as stated, for one series: in every year the reliability is at most
\* the mean of the two survival values, within 0..100, the power at most
\* the rated power and the loss not negative.
OnlyPenalised(df, label, bom) ==
    \A i \in 1..Len(df) :
        /\ df[i][label \o " Reliability"] * 2
              <= 100 * SurvivalSum(MatOf(bom), CellOf(bom), site.avg_temp, df[i]["Year"])
        /\ df[i][label \o " Reliability"] >= 0
        /\ df[i][label \o " Reliability"] <= 100 * Scale
        /\ df[i][label \o " Power (W)"] <= initial_power * Scale
        /\ df[i][label \o " Loss (%)"] >= 0

C9_DivisionOnlyPenalises ==
    Simulated =>
        /\ ~WeibullMissing(bom1) => OnlyPenalised(df1, "BOM 1", bom1)
        /\ ~WeibullMissing(bom2) => OnlyPenalised(df2, "BOM 2", bom2)

\* Every selection select_bom can return
AllBoms ==
    { select_bom(ch) : ch \in [1..Len(Components) -> 1..2] }

\* C10: the failure-risk section is what the handler computes from BOM 1,
\* the profile and the risk table under any BOM 2 whatever, and every row
\* of the report is selected by a material of BOM 1.
C10_RiskIgnoresBom2 ==
    Simulated =>
        /\ \A other \in AllBoms : RiskSection(bom1, other, selected_tests) = risk
        /\ \A k \in 1..Len(risk.df) :
              \E i \in 1..Len(bom1) :
                 /\ risk.df[k].Component = bom1[i].Component
                 /\ StrContains(risk.df[k].Material, bom1[i].Type)

C10_Witness ==
    /\ Simulated
    /\ risk.shown = "success"
    /\ RiskLoop(bom2, Keys(selected_tests)).risks # <<>>

====
